---- MODULE Spec2Model ----
(***************************************************************************)
(* A model of qsearch/gates.py: the gate objects (primitive gates,         *)
(* KroneckerGate, ProductGate), their constructors and builder methods,    *)
(* structural validation, matrix / mat_jac evaluation, and the scratch     *)
(* arrays of ZXZXZGate and XZXZGate under two threads.                     *)
(*                                                                         *)
(* Objects live in a heap (gates); the _subgates containers live in a heap *)
(* of their own (lists), so that sharing a container is expressible.       *)
(* ret is the last call and what it returned, tampers counts the           *)
(* attribute assignments made from outside, calls the matrix / mat_jac     *)
(* calls made; scratch holds the arrays kept on the shared instance, thr   *)
(* the two threads' calls and sched which of them ran last; heap holds the *)
(* arrays as objects, for the calls whose question is which array is       *)
(* returned and which is written.                                          *)
(* Matrices are words over generators: a product is a concatenation in     *)
(* which a unitary generator cancels against its adjoint, a Kronecker      *)
(* product is a generator holding its factors.  An identity between words  *)
(* holds exactly when it holds for all unitary matrices.                   *)
(***************************************************************************)
EXTENDS Integers, Sequences, FiniteSets, TLC

VARIABLES gates, lists, ret, tampers, scratch, thr, calls, sched, heap

vars == <<gates, lists, ret, tampers, scratch, thr, calls, sched, heap>>

(***************************************************************************)
(* Bounds of the model.                                                    *)
(***************************************************************************)
MaxComposites == 2      \* composite objects built in the builder specification
MaxCells == 7           \* heap cells there (composite objects plus stored child references)
MaxArgs == 2            \* arguments of one constructor / builder call there
MaxTampers == 1         \* direct field manipulations in the validation specification
MaxField == 3           \* largest value written by a direct field manipulation
EvalComposites == 2     \* composite objects built in the evaluation specification
EvalArgs == 3           \* arguments of one constructor call there
MaxParam == 2           \* parameter values range over 1..MaxParam
MaxInputs == 3          \* longest parameter vector passed to matrix / mat_jac
MaxCalls == 1           \* matrix / mat_jac calls made in one run there
MaxPreemptions == 2     \* times a thread is switched out in the middle of its call
MaxBufferCalls == 2     \* matrix / mat_jac calls in the buffer specification
MaxNested == 3          \* composites built by the nesting specification
MaxOffset == 1          \* largest offset passed to assemble
MaxObjects == 5         \* gates held by the upgrade specification
MaxQudits == 3          \* qudits of an IdentityGate made there
MaxDim == 4             \* qudit dimension of an IdentityGate made there

(***************************************************************************)
(* Generic helpers.                                                        *)
(***************************************************************************)
RECURSIVE SeqsUpTo(_, _)
SeqsUpTo(S, n) ==
    IF n = 0 THEN {<<>>}
    ELSE LET shorter == SeqsUpTo(S, n - 1)
         IN  shorter \cup {Append(s, x) : s \in {t \in shorter : Len(t) = n - 1}, x \in S}

RECURSIVE SumSeq(_)
SumSeq(s) == IF s = <<>> THEN 0 ELSE Head(s) + SumSeq(Tail(s))

Min(a, b) == IF a < b THEN a ELSE b
Max(a, b) == IF a > b THEN a ELSE b

\* Python's s[lo:hi] for 0-based lo, hi already normalised to 0..len(s).
Slice(s, lo, hi) == IF hi <= lo THEN <<>> ELSE SubSeq(s, lo + 1, hi)

\* Python's normalisation of a slice bound: a negative bound counts from the
\* end, and the result is clamped to 0..len.
NormIndex(i, len) == IF i < 0 THEN Max(i + len, 0) ELSE Min(i, len)

\* s[:d]
SliceTo(s, d) == Slice(s, 0, NormIndex(d, Len(s)))
\* s[d:]
SliceFrom(s, d) == Slice(s, NormIndex(d, Len(s)), Len(s))

(***************************************************************************)
(* Gate objects.                                                           *)
(***************************************************************************)
\* The arrays of the buffer specification and the results it has returned;
\* the other specifications allocate none.
NoHeap == [mem |-> <<>>, returned |-> {}]
NoSched == [cur |-> 0, n |-> 0]
NoRet == [op |-> "none", recv |-> 0, args |-> <<>>, depth |-> 0, gate |-> 0,
          exc |-> "", flag |-> "", v |-> <<>>, ov |-> "", mat |-> <<>>,
          jacs |-> <<>>, before |-> <<>>, val |-> <<>>]

GateObj(type, num_inputs, qudits, sub, control, target) ==
    [type |-> type, num_inputs |-> num_inputs, qudits |-> qudits, sub |-> sub,
     control |-> control, target |-> target, kw |-> <<>>]

XGate == GateObj("XGate", 1, 1, 0, 0, 0)
U2Gate == GateObj("U2Gate", 2, 1, 0, 0, 0)
CNOTGate == GateObj("CNOTGate", 0, 2, 0, 0, 0)
NonadjacentCNOTGate(qudits, control, target) ==
    GateObj("NonadjacentCNOTGate", 0, qudits, 0, control, target)

U3Gate == GateObj("U3Gate", 3, 1, 0, 0, 0)

\* IdentityGate(qudits, d)
IdentityGate(qudits, d) == [GateObj("IdentityGate", 0, qudits, 0, 0, 0) EXCEPT !.kw = [d |-> d]]

\* int(np.log(n) / np.log(2)) for the n that occur
Log2(n) == CASE n = 2 -> 1 [] n = 4 -> 2 [] n = 8 -> 3

\* UGate(U, d, gatename, gateparams, gateindices), U an array of n rows known
\* by its name; gateindices is <<>> for None, else <<the tuple>>.
UGate(U, n, d, gatename, gateparams, gateindices) ==
    [GateObj("UGate", 0, Log2(n), 0, 0, 0) EXCEPT
        !.kw = [U |-> U, d |-> d, gatename |-> gatename, gateparams |-> gateparams,
                gateindices |-> gateindices]]

\* CUGate(U, gatename, gateparams, flipped)
CUGate(U, gatename, gateparams, flipped) ==
    [GateObj("CUGate", 0, 2, 0, 0, 0) EXCEPT
        !.kw = [U |-> U, gatename |-> gatename, gateparams |-> gateparams,
                flipped |-> flipped]]

IsComposite(g) == gates[g].type \in {"KroneckerGate", "ProductGate"}
Composites == {g \in DOMAIN gates : IsComposite(g)}
Subgates(g) == lists[gates[g].sub]

\* sum([gate.num_inputs for gate in subgates])
SumInputs(subgates) == SumSeq([i \in DOMAIN subgates |-> gates[subgates[i]].num_inputs])
SumQudits(subgates) == SumSeq([i \in DOMAIN subgates |-> gates[subgates[i]].qudits])

\* The loop of ProductGate.__init__: a ProductGate argument contributes its
\* stored children, any other argument itself.
NoFlatten(subgates) == subgates

RECURSIVE FlattenArgs(_)
FlattenArgs(subgates) ==
    IF subgates = <<>> THEN <<>>
    ELSE LET g == Head(subgates)
         IN  (IF gates[g].type = "ProductGate" THEN Subgates(g) ELSE <<g>>)
             \o FlattenArgs(Tail(subgates))

\* The heap cells in use: one per composite object and one per stored child.
Cells(ls) == Len(ls) + SumSeq([i \in DOMAIN ls |-> Len(ls[i])])

\* The effect of a call that constructs an object: the two heaps after it and
\* the object returned.
Constructed(obj, list) ==
    [gates |-> Append(gates, obj), lists |-> Append(lists, list), gate |-> Len(gates) + 1]

\* ProductGate(*subgates): a new object with a new list.
ProductGate_init(subgates) ==
    Constructed(GateObj("ProductGate", SumInputs(subgates),
                        IF Len(subgates) = 0 THEN 0 ELSE gates[subgates[1]].qudits,
                        Len(lists) + 1, 0, 0),
                FlattenArgs(subgates))

\* KroneckerGate(*subgates): the argument tuple is stored as it is.
KroneckerGate_init(subgates) ==
    Constructed(GateObj("KroneckerGate", SumInputs(subgates), SumQudits(subgates),
                        Len(lists) + 1, 0, 0),
                subgates)

\* A builder that extends the receiver's own list and returns the receiver.
InPlaceAppending(self, gs) ==
    [gates |-> [gates EXCEPT ![self].num_inputs = @ + SumInputs(gs)],
     lists |-> [lists EXCEPT ![gates[self].sub] = @ \o gs],
     gate |-> self]

\* ProductGate.appending(*gates)
ProductGate_appending(self, gs) == ProductGate_init(Subgates(self) \o gs)

\* ProductGate.inserting(*gates, depth=-1)
DefaultDepth == -1
ProductGate_inserting(self, gs, depth) ==
    ProductGate_init(SliceTo(Subgates(self), depth) \o gs \o SliceFrom(Subgates(self), depth))

\* KroneckerGate.appending(gate)
KroneckerGate_appending(self, g) == KroneckerGate_init(Append(Subgates(self), g))

\* The heaps and the call record after a call with effect made.
Allocate(made, r) ==
    /\ Cells(made.lists) <= MaxCells
    /\ gates' = made.gates
    /\ lists' = made.lists
    /\ ret' = [r EXCEPT !.gate = made.gate]

(***************************************************************************)
(* The canonical key: __repr__, as the sequence of the pieces the string   *)
(* is put together from.                                                   *)
(***************************************************************************)
RECURSIVE JoinReprs(_, _)
JoinReprs(rs, sep) ==
    IF rs = <<>> THEN <<>>
    ELSE IF Len(rs) = 1 THEN rs[1]
    ELSE rs[1] \o <<sep>> \o JoinReprs(Tail(rs), sep)

\* The exception repr(g) ends with, "" when it returns: UGate.__repr__ reads
\* a name U and CUGate.__repr__ an attribute self.name that nothing binds.
RECURSIVE FirstExc(_)
FirstExc(excs) ==
    IF excs = <<>> THEN ""
    ELSE IF Head(excs) # "" THEN Head(excs)
    ELSE FirstExc(Tail(excs))
RECURSIVE ReprExc(_)
ReprExc(g) ==
    CASE gates[g].type = "UGate" -> "NameError"
      [] gates[g].type = "CUGate" -> "AttributeError"
      [] gates[g].type = "UpgradedConstantGate" -> ReprExc(gates[g].kw.subgate)
      [] IsComposite(g) -> FirstExc([i \in DOMAIN Subgates(g) |-> ReprExc(Subgates(g)[i])])
      [] OTHER -> ""

RECURSIVE Repr(_)
Repr(g) ==
    LET t == gates[g].type
        children == [i \in DOMAIN Subgates(g) |-> Repr(Subgates(g)[i])]
    IN  CASE t = "KroneckerGate" ->
               \* repr of a tuple, without its parentheses: "a, b", "a," or ""
               <<"KroneckerGate(">> \o JoinReprs(children, ", ")
                   \o (IF Len(children) = 1 THEN <<",">> ELSE <<>>) \o <<")">>
          [] t = "ProductGate" ->
               \* repr of a list, without its brackets
               <<"ProductGate(">> \o JoinReprs(children, ", ") \o <<")">>
          [] t = "NonadjacentCNOTGate" ->
               <<"NonadjacentCNOTGate(", ToString(gates[g].qudits), ", ",
                 ToString(gates[g].control), ", ", ToString(gates[g].target), ")">>
          [] t = "IdentityGate" ->
               IF gates[g].qudits = 1 /\ gates[g].kw.d = 2 THEN <<"IdentityGate()">>
               ELSE <<"IdentityGate(qudits=", ToString(gates[g].qudits), ", d=",
                      ToString(gates[g].kw.d), ")">>
          [] t = "UpgradedConstantGate" ->
               <<"UpgradedConstantGate(">> \o Repr(gates[g].kw.subgate)
                   \o <<", df=", ToString(gates[g].kw.df), ")">>
          [] OTHER -> <<t, "()">>

(***************************************************************************)
(* The builder specification: a harness holding one XGate and one CNOTGate *)
(* builds composites with the constructors and the builder methods.        *)
(***************************************************************************)
Init ==
    /\ gates = <<XGate, CNOTGate>>
    /\ lists = <<>>
    /\ ret = NoRet
    /\ tampers = 0
    /\ scratch = <<>>
    /\ thr = <<>>
    /\ calls = 0
    /\ sched = NoSched
    /\ heap = NoHeap

Depths == (0 - MaxArgs - 1) .. (MaxArgs + 1)

NewProductGate(subgates) ==
    /\ Allocate(ProductGate_init(subgates),
                [NoRet EXCEPT !.op = "ProductGate", !.args = subgates])
    /\ UNCHANGED <<heap, tampers, scratch, thr, calls, sched>>

NewKroneckerGate(subgates) ==
    /\ Allocate(KroneckerGate_init(subgates),
                [NoRet EXCEPT !.op = "KroneckerGate", !.args = subgates])
    /\ UNCHANGED <<heap, tampers, scratch, thr, calls, sched>>

Appending(self, gs) ==
    /\ gates[self].type = "ProductGate"
    /\ Allocate(ProductGate_appending(self, gs),
                [NoRet EXCEPT !.op = "appending", !.recv = self, !.args = gs,
                              !.before = Subgates(self)])
    /\ UNCHANGED <<heap, tampers, scratch, thr, calls, sched>>

Inserting(self, gs, depth) ==
    /\ gates[self].type = "ProductGate"
    /\ Allocate(ProductGate_inserting(self, gs, depth),
                [NoRet EXCEPT !.op = "inserting", !.recv = self, !.args = gs,
                              !.depth = depth, !.before = Subgates(self)])
    /\ UNCHANGED <<heap, tampers, scratch, thr, calls, sched>>

KronAppending(self, g) ==
    /\ gates[self].type = "KroneckerGate"
    /\ Allocate(KroneckerGate_appending(self, g),
                [NoRet EXCEPT !.op = "kron_appending", !.recv = self, !.args = <<g>>,
                              !.before = Subgates(self)])
    /\ UNCHANGED <<heap, tampers, scratch, thr, calls, sched>>

CanBuild == Len(lists) < MaxComposites
BuildArgs == SeqsUpTo(DOMAIN gates, MaxArgs)

CallProductGate ==
    /\ CanBuild
    /\ \E subgates \in BuildArgs : NewProductGate(subgates)
CallKroneckerGate ==
    /\ CanBuild
    /\ \E subgates \in BuildArgs : NewKroneckerGate(subgates)
CallAppending ==
    /\ CanBuild
    /\ \E self \in DOMAIN gates, gs \in BuildArgs : Appending(self, gs)
CallInsertingDefault ==
    /\ CanBuild
    /\ \E self \in DOMAIN gates, gs \in BuildArgs : Inserting(self, gs, DefaultDepth)
CallInserting ==
    /\ CanBuild
    /\ \E self \in DOMAIN gates, gs \in BuildArgs, depth \in Depths :
           Inserting(self, gs, depth)
CallKronAppending ==
    /\ CanBuild
    /\ \E self \in DOMAIN gates, g \in DOMAIN gates : KronAppending(self, g)

Next ==
    \/ CallProductGate
    \/ CallKroneckerGate
    \/ CallAppending
    \/ CallInsertingDefault
    \/ CallInserting
    \/ CallKronAppending

Spec == Init /\ [][Next]_vars

(***************************************************************************)
(* validate_structure.  A call ends with an exception (exc) or returns a   *)
(* value (flag): "True", "False" or "None".                                *)
(***************************************************************************)
Outcome(exc, flag) == [exc |-> exc, flag |-> flag]

\* The names bound at module level besides the classes: the imports.
ModuleNames == {"np", "utils", "unitaries", "md5", "native_from_object"}

\* Evaluating the call warn(...): the name is looked up in the module.
warn == IF "warn" \in ModuleNames THEN "" ELSE "NameError"

\* Python's truth value of a returned flag.
Truthy(flag) == flag = "True"

RECURSIVE validate_structure(_)
RECURSIVE KroneckerGate_validate_loop(_, _, _)
RECURSIVE ProductGate_validate_loop(_, _, _)

\* Gate.validate_structure
Gate_validate_structure(self) == Outcome("", "True")

\* NonadjacentCNOTGate.validate_structure
NonadjacentCNOTGate_validate_structure(self) ==
    LET g == gates[self]
    IN  IF g.control >= g.qudits \/ g.target > g.qudits
        THEN (IF warn # "" THEN Outcome(warn, "") ELSE Outcome("", "False"))
        ELSE IF g.control = g.target
        THEN (IF warn # "" THEN Outcome(warn, "") ELSE Outcome("", "False"))
        ELSE Outcome("", "True")

\* The loop of KroneckerGate.validate_structure from child i on.
KroneckerGate_validate_loop(subs, i, valid) ==
    IF i > Len(subs) THEN Outcome("", valid)
    ELSE LET rc == validate_structure(subs[i])
         IN  IF rc.exc # "" THEN rc
             ELSE KroneckerGate_validate_loop(
                      subs, i + 1, IF ~Truthy(rc.flag) THEN "False" ELSE valid)

\* KroneckerGate.validate_structure
KroneckerGate_validate_structure(self) ==
    LET loop == KroneckerGate_validate_loop(Subgates(self), 1, "True")
        num_inputs == SumInputs(Subgates(self))
        dits == SumQudits(Subgates(self))
    IN  IF loop.exc # "" THEN loop
        ELSE IF num_inputs # gates[self].num_inputs /\ warn # "" THEN Outcome(warn, "")
        ELSE IF dits # gates[self].qudits /\ warn # "" THEN Outcome(warn, "")
        ELSE IF num_inputs # gates[self].num_inputs \/ dits # gates[self].qudits
        THEN Outcome("", "False")
        ELSE loop

\* The loop of ProductGate.validate_structure from child i on.
ProductGate_validate_loop(self, i, valid) ==
    LET subs == Subgates(self)
    IN  IF i > Len(subs) THEN Outcome("", valid)
        ELSE IF gates[subs[i]].qudits # gates[self].qudits /\ warn # ""
        THEN Outcome(warn, "")
        ELSE LET rc == validate_structure(subs[i])
             IN  IF rc.exc # "" THEN rc
                 ELSE ProductGate_validate_loop(
                          self, i + 1,
                          IF gates[subs[i]].qudits # gates[self].qudits \/ ~Truthy(rc.flag)
                          THEN "False" ELSE valid)

\* ProductGate.validate_structure: after the checks valid is set to True and
\* the function ends without a return statement.
ProductGate_validate_structure(self) ==
    LET loop == ProductGate_validate_loop(self, 1, "True")
    IN  IF loop.exc # "" THEN loop
        ELSE IF SumInputs(Subgates(self)) # gates[self].num_inputs /\ warn # ""
        THEN Outcome(warn, "")
        ELSE Outcome("", "None")

validate_structure(g) ==
    CASE gates[g].type = "KroneckerGate" -> KroneckerGate_validate_structure(g)
      [] gates[g].type = "ProductGate" -> ProductGate_validate_structure(g)
      [] gates[g].type = "NonadjacentCNOTGate" -> NonadjacentCNOTGate_validate_structure(g)
      [] OTHER -> Gate_validate_structure(g)

(***************************************************************************)
(* The validation specification: a harness builds composites, overwrites   *)
(* fields of objects directly, and calls validate_structure.               *)
(***************************************************************************)
InitValidate ==
    /\ gates = <<XGate, CNOTGate, NonadjacentCNOTGate(3, 0, 2)>>
    /\ lists = <<>>
    /\ ret = NoRet
    /\ tampers = 0
    /\ scratch = <<>>
    /\ thr = <<>>
    /\ calls = 0
    /\ sched = NoSched
    /\ heap = NoHeap

Fields(g) ==
    IF gates[g].type = "NonadjacentCNOTGate" THEN {"qudits", "control", "target"}
    ELSE IF IsComposite(g) THEN {"num_inputs", "qudits"}
    ELSE {}

\* gate.<field> = value, written from outside the class.
SetField(g, field, value) ==
    /\ tampers < MaxTampers
    /\ gates' = [gates EXCEPT ![g] =
                    CASE field = "num_inputs" -> [@ EXCEPT !.num_inputs = value]
                      [] field = "qudits" -> [@ EXCEPT !.qudits = value]
                      [] field = "control" -> [@ EXCEPT !.control = value]
                      [] field = "target" -> [@ EXCEPT !.target = value]]
    /\ tampers' = tampers + 1
    /\ ret' = [NoRet EXCEPT !.op = "setattr", !.recv = g]
    /\ UNCHANGED <<heap, lists, scratch, thr, calls, sched>>

Validate(g) ==
    /\ LET r == validate_structure(g)
       IN  ret' = [NoRet EXCEPT !.op = "validate_structure", !.recv = g,
                                !.exc = r.exc, !.flag = r.flag]
    /\ UNCHANGED <<heap, gates, lists, tampers, scratch, thr, calls, sched>>

CallSetField ==
    \E g \in DOMAIN gates : \E field \in Fields(g), value \in 0 .. MaxField :
        SetField(g, field, value)
CallValidate == \E g \in DOMAIN gates : Validate(g)

NextValidate ==
    \/ CallProductGate
    \/ CallKroneckerGate
    \/ CallSetField
    \/ CallValidate

SpecValidate == InitValidate /\ [][NextValidate]_vars

(***************************************************************************)
(* The nesting specification: a harness holding one XGate builds           *)
(* composites of composites and validates them, assigning nothing.         *)
(***************************************************************************)
InitNested ==
    /\ gates = <<XGate>>
    /\ lists = <<>>
    /\ ret = NoRet
    /\ tampers = 0
    /\ scratch = <<>>
    /\ thr = <<>>
    /\ calls = 0
    /\ sched = NoSched
    /\ heap = NoHeap

CanNest == Len(lists) < MaxNested
NestProductGate == CanNest /\ \E subgates \in BuildArgs : NewProductGate(subgates)
NestKroneckerGate == CanNest /\ \E subgates \in BuildArgs : NewKroneckerGate(subgates)

NextNested ==
    \/ NestProductGate
    \/ NestKroneckerGate
    \/ CallValidate

SpecNested == InitNested /\ [][NextNested]_vars

(***************************************************************************)
(* Matrices.  A matrix is a word of generators, read as their product; the *)
(* empty word is the identity.  A generator is the matrix of a primitive   *)
(* gate at a parameter slice (k = 0), its Jacobian for the k-th parameter  *)
(* (k > 0), or a Kronecker product holding its factors (fs).  adj marks    *)
(* the conjugate transpose.  A unitary generator cancels against its       *)
(* adjoint, and nothing else is assumed of the generators.                 *)
(***************************************************************************)
Gen(n, p, k) == [n |-> n, p |-> p, k |-> k, adj |-> FALSE, fs |-> <<>>]
Eye == <<>>

\* A call that raised returns nothing.
Raised(exc) == [mat |-> <<>>, jacs |-> <<>>, exc |-> exc]

IsUnitary(m) == \A i \in DOMAIN m : m[i].k = 0
Inverses(x, y) ==
    /\ x.k = 0 /\ y.k = 0
    /\ x.n = y.n /\ x.p = y.p /\ x.fs = y.fs
    /\ x.adj # y.adj

\* The matrix product a . b
RECURSIVE MatMul(_, _)
MatMul(a, b) ==
    IF a = <<>> THEN b
    ELSE IF b = <<>> THEN a
    ELSE IF Inverses(a[Len(a)], b[1]) THEN MatMul(SubSeq(a, 1, Len(a) - 1), Tail(b))
    ELSE a \o b

\* m.T.conjugate()
Adjoint(m) == [i \in DOMAIN m |-> [m[Len(m) + 1 - i] EXCEPT !.adj = ~@]]

\* np.kron(a, b); the Kronecker product is associative, so a product of
\* products holds all the factors.
Factors(m) == IF Len(m) = 1 /\ m[1].n = "kron" /\ ~m[1].adj THEN m[1].fs ELSE <<m>>
KronOf(fs) ==
    <<[n |-> "kron", p |-> <<>>,
       k |-> IF \A i \in DOMAIN fs : IsUnitary(fs[i]) THEN 0 ELSE 1,
       adj |-> FALSE, fs |-> fs]>>
np_kron(a, b) == KronOf(Factors(a) \o Factors(b))

\* What np.matmul(a, b, out=o) leaves in o when o is one of its own operands
\* depends on the numpy at hand: one that notices the overlap multiplies
\* into a temporary ("copy"); one that does not overwrites the operand while
\* it is still being read ("inplace"), and what it leaves is not the product.
OverlapModes == {"copy", "inplace"}
Clobbered == <<Gen("clobbered", <<>>, -1)>>
np_matmul(a, b, overlap, ov) ==
    IF overlap /\ ov = "inplace" THEN Clobbered ELSE MatMul(a, b)

\* v[lo:hi] for 0 <= lo <= hi
PySlice(v, lo, hi) == Slice(v, Min(lo, Len(v)), Min(hi, Len(v)))

(***************************************************************************)
(* matrix(v) and mat_jac(v).                                               *)
(***************************************************************************)
RECURSIVE Matrix(_, _, _)
RECURSIVE MatJac(_, _, _)

\* The first loop of the composites' matrix(): each child's matrix on its
\* slice, index running over v.
RECURSIVE ChildMatrices(_, _, _, _)
ChildMatrices(subs, v, index, ov) ==
    IF subs = <<>> THEN <<>>
    ELSE LET n == gates[Head(subs)].num_inputs
         IN  <<Matrix(Head(subs), PySlice(v, index, index + n), ov)>>
                 \o ChildMatrices(Tail(subs), v, index + n, ov)

\* The first loop of the composites' mat_jac(): each child's (U, Js).
RECURSIVE ChildMatJacs(_, _, _, _)
ChildMatJacs(subs, v, index, ov) ==
    IF subs = <<>> THEN <<>>
    ELSE LET n == gates[Head(subs)].num_inputs
         IN  <<MatJac(Head(subs), PySlice(v, index, index + n), ov)>>
                 \o ChildMatJacs(Tail(subs), v, index + n, ov)

\* KroneckerGate.matrix
RECURSIVE KronFold(_, _)
KronFold(U, rest) == IF rest = <<>> THEN U ELSE KronFold(np_kron(U, Head(rest)), Tail(rest))
KroneckerGate_matrix(self, v, ov) ==
    IF Len(Subgates(self)) < 2 THEN Matrix(Subgates(self)[1], v, ov)
    ELSE LET matrices == ChildMatrices(Subgates(self), v, 0, ov)
         IN  KronFold(matrices[1], Tail(matrices))

\* KroneckerGate.mat_jac.  The body of its second loop for one child (M, Js):
\* the Jacobians so far are extended by M, the child's own by the U so far.
KronExtendSwapped(J, M) == np_kron(M, J)
KronExtend(J, M) == np_kron(J, M)
KronStep(acc, MJ) ==
    LET extended == [i \in DOMAIN acc.jacs |-> KronExtend(acc.jacs[i], MJ.mat)]
        own == [i \in DOMAIN MJ.jacs |->
                   IF acc.none THEN MJ.jacs[i] ELSE np_kron(acc.U, MJ.jacs[i])]
    IN  [none |-> FALSE,
         U |-> IF acc.none THEN MJ.mat ELSE np_kron(acc.U, MJ.mat),
         jacs |-> extended \o own]
RECURSIVE KronLoop(_, _)
KronLoop(acc, matjacs) ==
    IF matjacs = <<>> THEN acc ELSE KronLoop(KronStep(acc, Head(matjacs)), Tail(matjacs))
KroneckerGate_mat_jac(self, v, ov) ==
    IF Len(Subgates(self)) < 2 THEN MatJac(Subgates(self)[1], v, ov)
    ELSE LET done == KronLoop([none |-> TRUE, U |-> Eye, jacs |-> <<>>],
                              ChildMatJacs(Subgates(self), v, 0, ov))
             matjacs == ChildMatJacs(Subgates(self), v, 0, ov)
             excs == [i \in DOMAIN matjacs |-> matjacs[i].exc]
         IN  IF FirstExc(excs) # "" THEN Raised(FirstExc(excs))
             ELSE [mat |-> done.U, jacs |-> done.jacs, exc |-> ""]

\* ProductGate.matrix.  mem holds the arrays: 1..n the children's matrices,
\* n+1 and n+2 the two copies made of the first; U, buffer1 and buffer2 name
\* arrays.  One pass of the loop for matrices[i]:
ProductGate_matrix_step(s, i, ov) ==
    LET out == s.buffer1
        product == np_matmul(s.mem[i], s.mem[s.U], out \in {i, s.U}, ov)
        buffertmp == s.buffer2
        buffer2 == s.buffer1
        buffer1 == buffer2
    IN  [U |-> out, buffer1 |-> buffer1, buffer2 |-> buffer2,
         mem |-> [s.mem EXCEPT ![out] = product]]
RECURSIVE ProductGate_matrix_loop(_, _, _, _)
ProductGate_matrix_loop(s, i, n, ov) ==
    IF i > n THEN s ELSE ProductGate_matrix_loop(ProductGate_matrix_step(s, i, ov), i + 1, n, ov)
ProductGate_matrix(self, v, ov) ==
    IF Len(Subgates(self)) < 2 THEN Matrix(Subgates(self)[1], v, ov)
    ELSE LET matrices == ChildMatrices(Subgates(self), v, 0, ov)
             n == Len(matrices)
             start == [U |-> 1, buffer1 |-> n + 1, buffer2 |-> n + 2,
                       mem |-> matrices \o <<matrices[1], matrices[1]>>]
             done == ProductGate_matrix_loop(start, 2, n, ov)
         IN  done.mem[done.U]

\* ProductGate.mat_jac.  mem holds the arrays: 1..n the children's matrices,
\* then the children's Jacobians in child order, then the copy of A (ba1),
\* the copy of B (bb1), B itself and the copy of B for bj; A, B, ba1, ba2,
\* bb1, bb2 and bj name arrays.
\* One pass of the first loop, for submats[i]:
ProductGate_mat_jac_after(s, i, ov) ==
    LET out == s.ba1
        product == np_matmul(s.mem[i], s.mem[s.A], out \in {i, s.A}, ov)
        buffertmp == s.ba2
        ba2 == s.ba1
        ba1 == ba2
    IN  [s EXCEPT !.A = out, !.ba1 = ba1, !.ba2 = ba2, !.mem[out] = product]
RECURSIVE ProductGate_mat_jac_loop1(_, _, _, _)
ProductGate_mat_jac_loop1(s, i, n, ov) ==
    IF i > n THEN s
    ELSE ProductGate_mat_jac_loop1(ProductGate_mat_jac_after(s, i, ov), i + 1, n, ov)

\* The inner loop of the second loop, over the arrays Js of one child.
RECURSIVE ProductGate_mat_jac_inner(_, _, _)
ProductGate_mat_jac_inner(s, Js, ov) ==
    IF Js = <<>> THEN s
    ELSE LET J == Head(Js)
             tmp == np_matmul(s.mem[J], s.mem[s.B], s.bj \in {J, s.B}, ov)
             mem1 == [s.mem EXCEPT ![s.bj] = tmp]
             full == np_matmul(mem1[s.A], mem1[s.bj], J \in {s.A, s.bj}, ov)
         IN  ProductGate_mat_jac_inner(
                 [s EXCEPT !.mem = [mem1 EXCEPT ![J] = full], !.jacs = Append(@, J)],
                 Tail(Js), ov)

\* One pass of the second loop, for child i with its Jacobian arrays Js.
ProductGate_mat_jac_child(s, i, Js, ov) ==
    LET stripped == np_matmul(s.mem[s.A], Adjoint(s.mem[i]), s.ba1 = s.A, ov)
        s1 == [s EXCEPT !.A = s.ba1, !.mem[s.ba1] = stripped]
        s2 == ProductGate_mat_jac_inner(s1, Js, ov)
        before == np_matmul(s2.mem[i], s2.mem[s2.B], s2.bb1 \in {i, s2.B}, ov)
    IN  [s2 EXCEPT !.B = s2.bb1, !.mem[s2.bb1] = before,
                   !.ba1 = s2.ba2, !.ba2 = s2.ba1,
                   !.bb1 = s2.bb2, !.bb2 = s2.bb1]
RECURSIVE ProductGate_mat_jac_loop2(_, _, _, _)
ProductGate_mat_jac_loop2(s, i, subjacs, ov) ==
    IF i > Len(subjacs) THEN s
    ELSE ProductGate_mat_jac_loop2(
             ProductGate_mat_jac_child(s, i, subjacs[i], ov), i + 1, subjacs, ov)

ProductGate_mat_jac(self, v, ov) ==
    IF Len(Subgates(self)) < 2 THEN MatJac(Subgates(self)[1], v, ov)
    ELSE LET matjacs == ChildMatJacs(Subgates(self), v, 0, ov)
             n == Len(matjacs)
             submats == [i \in 1 .. n |-> matjacs[i].mat]
             counts == [i \in 1 .. n |-> Len(matjacs[i].jacs)]
             first(i) == n + SumSeq(SubSeq(counts, 1, i - 1))
             subjacs == [i \in 1 .. n |-> [k \in 1 .. counts[i] |-> first(i) + k]]
             P == SumSeq(counts)
             flat == [j \in 1 .. P |->
                         LET i == CHOOSE c \in 1 .. n :
                                      first(c) < n + j /\ n + j <= first(c) + counts[c]
                         IN  matjacs[i].jacs[n + j - first(i)]]
             start == [A |-> 1, B |-> n + P + 3,
                       ba1 |-> n + P + 1, ba2 |-> 1,
                       bb1 |-> n + P + 2, bb2 |-> n + P + 3, bj |-> n + P + 4,
                       jacs |-> <<>>,
                       mem |-> submats \o flat \o <<submats[1], Eye, Eye, Eye>>]
             after == ProductGate_mat_jac_loop1(start, 2, n, ov)
             done == ProductGate_mat_jac_loop2(after, 1, subjacs, ov)
             excs == [i \in 1 .. n |-> matjacs[i].exc]
         IN  IF FirstExc(excs) # "" THEN Raised(FirstExc(excs))
             ELSE [mat |-> done.mem[done.B],
                   jacs |-> [j \in DOMAIN done.jacs |-> done.mem[done.jacs[j]]],
                   exc |-> ""]

\* Gate.mat_jac, for the gates that define none of their own: the pair
\* (matrix(v), []) of a constant gate, NotImplementedError otherwise.
Gate_mat_jac_unguarded(self, v, ov) ==
    [mat |-> Matrix(self, v, ov), jacs |-> <<>>, exc |-> ""]
Gate_mat_jac(self, v, ov) ==
    IF gates[self].num_inputs = 0
    THEN [mat |-> Matrix(self, v, ov), jacs |-> <<>>, exc |-> ""]
    ELSE Raised("NotImplementedError")

Matrix(g, v, ov) ==
    CASE gates[g].type = "XGate" -> <<Gen("rot_x", <<v[1]>>, 0)>>
      [] gates[g].type = "U2Gate" -> <<Gen("U2", <<v[1], v[2]>>, 0)>>
      [] gates[g].type = "CNOTGate" -> <<Gen("_cnot", <<>>, 0)>>
      [] gates[g].type = "IdentityGate" -> Eye
      [] gates[g].type = "UpgradedConstantGate" -> gates[g].kw.U
      [] gates[g].type = "CustomGate" -> <<Gen("custom", v, 0)>>
      [] gates[g].type = "KroneckerGate" -> KroneckerGate_matrix(g, v, ov)
      [] gates[g].type = "ProductGate" -> ProductGate_matrix(g, v, ov)

MatJac(g, v, ov) ==
    CASE gates[g].type = "XGate" ->
             [mat |-> <<Gen("rot_x", <<v[1]>>, 0)>>,
              jacs |-> << <<Gen("rot_x", <<v[1]>>, 1)>> >>, exc |-> ""]
      [] gates[g].type = "U2Gate" ->
             [mat |-> <<Gen("U2", <<v[1], v[2]>>, 0)>>,
              jacs |-> << <<Gen("U2", <<v[1], v[2]>>, 1)>>,
                          <<Gen("U2", <<v[1], v[2]>>, 2)>> >>, exc |-> ""]
      [] gates[g].type = "KroneckerGate" -> KroneckerGate_mat_jac(g, v, ov)
      [] gates[g].type = "ProductGate" -> ProductGate_mat_jac(g, v, ov)
      [] OTHER -> Gate_mat_jac(g, v, ov)

(***************************************************************************)
(* The evaluation specification: a harness holding an XGate, a U2Gate and  *)
(* a CNOTGate builds composites and calls matrix and mat_jac on them.      *)
(***************************************************************************)
InitEval ==
    /\ gates = <<XGate, U2Gate, CNOTGate>>
    /\ lists = <<>>
    /\ ret = NoRet
    /\ tampers = 0
    /\ scratch = <<>>
    /\ thr = <<>>
    /\ calls = 0
    /\ sched = NoSched
    /\ heap = NoHeap

\* The shape of the matrix of g, as the number of qudits, and whether the
\* numpy calls of matrix(v) get operands of fitting shapes.
RECURSIVE Shape(_)
Shape(g) ==
    CASE gates[g].type = "KroneckerGate" ->
             SumSeq([i \in DOMAIN Subgates(g) |-> Shape(Subgates(g)[i])])
      [] gates[g].type = "ProductGate" -> Shape(Subgates(g)[1])
      [] OTHER -> gates[g].qudits
RECURSIVE Evaluable(_)
Evaluable(g) ==
    IF ~IsComposite(g) THEN TRUE
    ELSE /\ Subgates(g) # <<>>
         /\ \A i \in DOMAIN Subgates(g) : Evaluable(Subgates(g)[i])
         /\ gates[g].type = "ProductGate" =>
                \A i \in DOMAIN Subgates(g) : Shape(Subgates(g)[i]) = Shape(Subgates(g)[1])

ParamVectors(n) == [1 .. n -> 1 .. MaxParam]
EvalArgSeqs == SeqsUpTo(DOMAIN gates, EvalArgs) \ {<<>>}
CanBuildEval == Len(lists) < EvalComposites

CallMatrix(g, v, ov) ==
    /\ calls < MaxCalls
    /\ calls' = calls + 1
    /\ ret' = [NoRet EXCEPT !.op = "matrix", !.recv = g, !.v = v, !.ov = ov,
                            !.mat = Matrix(g, v, ov)]
    /\ UNCHANGED <<heap, gates, lists, tampers, scratch, thr, sched>>

CallMatJac(g, v, ov) ==
    /\ calls < MaxCalls
    /\ calls' = calls + 1
    /\ LET r == MatJac(g, v, ov)
       IN  ret' = [NoRet EXCEPT !.op = "mat_jac", !.recv = g, !.v = v, !.ov = ov,
                                !.mat = r.mat, !.jacs = r.jacs, !.exc = r.exc]
    /\ UNCHANGED <<heap, gates, lists, tampers, scratch, thr, sched>>

EvalProductGate == CanBuildEval /\ \E subgates \in EvalArgSeqs : NewProductGate(subgates)
EvalKroneckerGate == CanBuildEval /\ \E subgates \in EvalArgSeqs : NewKroneckerGate(subgates)
EvalMatrix ==
    \E g \in Composites :
        /\ Evaluable(g) /\ gates[g].num_inputs <= MaxInputs
        /\ \E v \in ParamVectors(gates[g].num_inputs), ov \in OverlapModes :
               CallMatrix(g, v, ov)
EvalMatJac ==
    \E g \in Composites :
        /\ Evaluable(g) /\ gates[g].num_inputs <= MaxInputs
        /\ \E v \in ParamVectors(gates[g].num_inputs), ov \in OverlapModes :
               CallMatJac(g, v, ov)

NextEval ==
    \/ EvalProductGate
    \/ EvalKroneckerGate
    \/ EvalMatrix
    \/ EvalMatJac

SpecEval == InitEval /\ [][NextEval]_vars

(***************************************************************************)
(* ZXZXZGate and XZXZGate keep the arrays _rot_z, _out and _buffer on the  *)
(* instance, and matrix and mat_jac work in them statement by statement.   *)
(* A method is the list of its statements:                                 *)
(*   re_rot_z i       utils.re_rot_z(v[i-1], self._rot_z)                  *)
(*   re_rot_z_jac i   utils.re_rot_z_jac(v[i-1], self._rot_z)              *)
(*   dot_out a b      self.<out> = np.dot(self.<a>, self.<b>, out=...)     *)
(*   dot              <local> = np.dot(self._rot_z, self._out)             *)
(*   return_dot       return np.dot(self._rot_z, self._out)                *)
(*   return           return (U, [J1, ...])                                *)
(***************************************************************************)
ZXZXZGate == GateObj("ZXZXZGate", 3, 1, 0, 0, 0)
XZXZGate == GateObj("XZXZGate", 2, 1, 0, 0, 0)

rot_z(a) == <<Gen("rot_z", <<a>>, 0)>>
rot_z_jac(a) == <<Gen("rot_z", <<a>>, 1)>>
x90 == <<Gen("x90", <<>>, 0)>>
NewScratch == [f \in {"_rot_z", "_out", "_buffer"} |-> IF f = "_rot_z" THEN rot_z(0) ELSE Eye]

Ins(i, n, out, a, b) == [i |-> i, n |-> n, out |-> out, a |-> a, b |-> b]
ReRotZ(n) == Ins("re_rot_z", n, "", "", "")
ReRotZJac(n) == Ins("re_rot_z_jac", n, "", "", "")
DotOut(out, a, b) == Ins("dot_out", 0, out, a, b)
Dot == Ins("dot", 0, "", "_rot_z", "_out")
ReturnDot == Ins("return_dot", 0, "", "_rot_z", "_out")
Return == Ins("return", 0, "", "", "")

\* lines 205/207/208 and 268/269
ZXZXZ_body == <<DotOut("_out", "_x90", "_rot_z"), ReRotZ(2),
                DotOut("_buffer", "_rot_z", "_out"), DotOut("_out", "_x90", "_buffer")>>
XZXZ_body == <<DotOut("_buffer", "_rot_z", "_x90"), DotOut("_out", "_x90", "_buffer")>>
ZXZXZ_body_jac == [ZXZXZ_body EXCEPT ![2] = ReRotZJac(2)]

ZXZXZGate_matrix == <<ReRotZ(1)>> \o ZXZXZ_body \o <<ReRotZ(3), ReturnDot>>
ZXZXZGate_mat_jac ==
    <<ReRotZJac(1)>> \o ZXZXZ_body \o <<ReRotZ(3), Dot>>
        \o <<ReRotZ(1)>> \o ZXZXZ_body_jac \o <<ReRotZ(3), Dot>>
        \o <<ReRotZ(1)>> \o ZXZXZ_body \o <<ReRotZJac(3), Dot>>
        \o <<ReRotZ(3), Dot, Return>>
XZXZGate_matrix == <<ReRotZ(1)>> \o XZXZ_body \o <<ReRotZ(2), ReturnDot>>
XZXZGate_mat_jac ==
    <<ReRotZJac(1)>> \o XZXZ_body \o <<ReRotZ(2), Dot>>
        \o <<ReRotZ(1)>> \o XZXZ_body \o <<ReRotZJac(2), Dot>>
        \o <<ReRotZ(2), Dot, Return>>

Method(type, op) ==
    CASE type = "ZXZXZGate" /\ op = "matrix" -> ZXZXZGate_matrix
      [] type = "ZXZXZGate" /\ op = "mat_jac" -> ZXZXZGate_mat_jac
      [] type = "XZXZGate" /\ op = "matrix" -> XZXZGate_matrix
      [] type = "XZXZGate" /\ op = "mat_jac" -> XZXZGate_mat_jac

\* The effect of one statement of a call with parameters v, on the fields
\* of the instance (sc) and on the locals of the call (loc).
Field(sc, f) == IF f = "_x90" THEN x90 ELSE sc[f]
Exec(ins, v, sc, loc) ==
    CASE ins.i = "re_rot_z" -> [sc |-> [sc EXCEPT !["_rot_z"] = rot_z(v[ins.n])], loc |-> loc]
      [] ins.i = "re_rot_z_jac" ->
             [sc |-> [sc EXCEPT !["_rot_z"] = rot_z_jac(v[ins.n])], loc |-> loc]
      [] ins.i = "dot_out" ->
             [sc |-> [sc EXCEPT ![ins.out] = MatMul(Field(sc, ins.a), Field(sc, ins.b))],
              loc |-> loc]
      [] ins.i \in {"dot", "return_dot"} ->
             [sc |-> sc, loc |-> Append(loc, MatMul(Field(sc, ins.a), Field(sc, ins.b)))]
      [] ins.i = "return" -> [sc |-> sc, loc |-> loc]

\* What a finished call returns: matrix its one product, mat_jac its last
\* product as U and the earlier ones as the Jacobians.
Returned(op, loc) ==
    IF op = "matrix" THEN [mat |-> loc[1], jacs |-> <<>>]
    ELSE [mat |-> loc[Len(loc)], jacs |-> SubSeq(loc, 1, Len(loc) - 1)]

\* A call run alone, from statement pc on.
RECURSIVE RunAlone(_, _, _, _, _)
RunAlone(prog, pc, v, sc, loc) ==
    IF pc > Len(prog) THEN loc
    ELSE LET e == Exec(prog[pc], v, sc, loc)
         IN  RunAlone(prog, pc + 1, v, e.sc, e.loc)
Alone(type, op, v) == Returned(op, RunAlone(Method(type, op), 1, v, NewScratch, <<>>))

(***************************************************************************)
(* The thread specification: two threads share one ZXZXZGate or XZXZGate   *)
(* and each calls matrix or mat_jac on it once; the statements of the two  *)
(* calls interleave.  thr[t] is the call of thread t: pc = 0 before it,    *)
(* the number of the next statement during it, and res once it returned.   *)
(***************************************************************************)
Threads == {1, 2}
NoCall == [op |-> "", v |-> <<>>, pc |-> 0, loc |-> <<>>, done |-> FALSE,
           res |-> [mat |-> <<>>, jacs |-> <<>>]]
ThreadVectors(n) == {[i \in 1 .. n |-> a] : a \in 1 .. MaxParam}

InitThreads ==
    /\ gates \in {<<ZXZXZGate>>, <<XZXZGate>>}
    /\ lists = <<>>
    /\ ret = NoRet
    /\ tampers = 0
    /\ scratch = NewScratch
    /\ thr = [t \in Threads |-> NoCall]
    /\ calls = 0
    /\ sched = NoSched
    /\ heap = NoHeap

Shared == 1
Running(t) == thr[t].pc > 0 /\ ~thr[t].done
Statement(t) == Method(gates[Shared].type, thr[t].op)[thr[t].pc]
At(t, kinds) == Running(t) /\ Statement(t).i \in kinds

\* Thread t gets the interpreter: the thread that ran last is switched out,
\* in the middle of its call if it is still running.
Preempts(t) == sched.cur \notin {0, t} /\ Running(sched.cur)
Schedule(t) ==
    /\ Preempts(t) => sched.n < MaxPreemptions
    /\ sched' = [cur |-> t, n |-> IF Preempts(t) THEN sched.n + 1 ELSE sched.n]

ThreadCall(t, op, v) ==
    /\ thr[t].pc = 0
    /\ Schedule(t)
    /\ thr' = [thr EXCEPT ![t] = [NoCall EXCEPT !.op = op, !.v = v, !.pc = 1]]
    /\ UNCHANGED <<heap, gates, lists, ret, tampers, scratch, calls>>

\* One statement of a running call.
ThreadStep(t) ==
    LET e == Exec(Statement(t), thr[t].v, scratch, thr[t].loc)
        last == Statement(t).i \in {"return", "return_dot"}
    IN  /\ Schedule(t)
        /\ scratch' = e.sc
        /\ thr' = [thr EXCEPT ![t].loc = e.loc,
                              ![t].pc = IF last THEN @ ELSE @ + 1,
                              ![t].done = last,
                              ![t].res = IF last THEN Returned(thr[t].op, e.loc) ELSE @]
        /\ UNCHANGED <<heap, gates, lists, ret, tampers, calls>>

StartCall ==
    \E t \in Threads, op \in {"matrix", "mat_jac"} :
        \E v \in ThreadVectors(gates[Shared].num_inputs) : ThreadCall(t, op, v)
StepReRotZ == \E t \in Threads : At(t, {"re_rot_z"}) /\ ThreadStep(t)
StepReRotZJac == \E t \in Threads : At(t, {"re_rot_z_jac"}) /\ ThreadStep(t)
StepDotOut == \E t \in Threads : At(t, {"dot_out"}) /\ ThreadStep(t)
StepDot == \E t \in Threads : At(t, {"dot"}) /\ ThreadStep(t)
StepReturn == \E t \in Threads : At(t, {"return", "return_dot"}) /\ ThreadStep(t)

NextThreads ==
    \/ StartCall
    \/ StepReRotZ
    \/ StepReRotZJac
    \/ StepDotOut
    \/ StepDot
    \/ StepReturn

SpecThreads == InitThreads /\ [][NextThreads]_vars

(***************************************************************************)
(* __eq__ and __hash__.  A call ends with an exception or returns a value. *)
(***************************************************************************)
\* The classes that define __eq__ in their body; a class that does and
\* defines no __hash__ gets __hash__ = None from Python.
EqOverrides == {"U3Gate", "U2Gate", "U1Gate", "CNOTGate", "CZGate", "ISwapGate", "XXGate"}

Bool(b) == IF b THEN "True" ELSE "False"

\* Gate.__eq__, and the __eq__ of the classes of EqOverrides
Gate_eq(self, other) ==
    IF gates[self].type \in EqOverrides
    THEN Outcome("", Bool(gates[self].type = gates[other].type))
    ELSE IF ReprExc(self) # "" THEN Outcome(ReprExc(self), "")
    ELSE IF ReprExc(other) # "" THEN Outcome(ReprExc(other), "")
    ELSE Outcome("", Bool(Repr(self) = Repr(other)))

\* int(md5(s.encode()).hexdigest(), 16): a fixed function of the string
md5(s) == <<"md5">> \o s

\* hash(self): Gate.__hash__, or none
Gate_hash(self) ==
    IF gates[self].type \in EqOverrides THEN [exc |-> "TypeError", val |-> <<>>]
    ELSE IF ReprExc(self) # "" THEN [exc |-> ReprExc(self), val |-> <<>>]
    ELSE [exc |-> "", val |-> md5(Repr(self))]

(***************************************************************************)
(* The identity specification: a harness holding primitive gates, among    *)
(* them two UGates and two CUGates made from the same arguments, builds    *)
(* composites and compares and hashes what it holds.                       *)
(***************************************************************************)
InitIdentity ==
    /\ gates = <<XGate, CNOTGate,
                 UGate("H", 2, 2, "CUSTOM", <<>>, <<>>),
                 CUGate("H", "Name", <<>>, FALSE)>>
    /\ lists = <<>>
    /\ ret = NoRet
    /\ tampers = 0
    /\ scratch = <<>>
    /\ thr = <<>>
    /\ calls = 0
    /\ sched = NoSched
    /\ heap = NoHeap

Eq(a, b) ==
    /\ calls < MaxCalls
    /\ calls' = calls + 1
    /\ LET r == Gate_eq(a, b)
       IN  ret' = [NoRet EXCEPT !.op = "eq", !.recv = a, !.args = <<b>>,
                                !.exc = r.exc, !.flag = r.flag]
    /\ UNCHANGED <<heap, gates, lists, tampers, scratch, thr, sched>>

Hash(a) ==
    /\ calls < MaxCalls
    /\ calls' = calls + 1
    /\ LET r == Gate_hash(a)
       IN  ret' = [NoRet EXCEPT !.op = "hash", !.recv = a, !.exc = r.exc, !.val = r.val]
    /\ UNCHANGED <<heap, gates, lists, tampers, scratch, thr, sched>>

CallEq == \E a \in DOMAIN gates, b \in DOMAIN gates : Eq(a, b)
CallHash == \E a \in DOMAIN gates : Hash(a)

NextIdentity ==
    \/ CallProductGate
    \/ CallKroneckerGate
    \/ CallEq
    \/ CallHash

SpecIdentity == InitIdentity /\ [][NextIdentity]_vars

(***************************************************************************)
(* The upgrade specification: a harness holding an XGate, a CNOTGate and   *)
(* one gate of a subclass of Gate that takes a parameter and implements    *)
(* matrix alone makes IdentityGates, upgrades the primitives it holds and  *)
(* asks the gates for their matrix and for their mat_jac.                  *)
(***************************************************************************)
\* A subclass of Gate that sets num_inputs and qudits and implements matrix.
CustomGate(num_inputs) == GateObj("CustomGate", num_inputs, 1, 0, 0, 0)

\* d ** qudits
RECURSIVE Pow(_, _)
Pow(d, q) == IF q = 0 THEN 1 ELSE d * Pow(d, q - 1)

\* other.matrix([]).shape[0]
Rows(g) ==
    CASE gates[g].type = "IdentityGate" -> Pow(gates[g].kw.d, gates[g].qudits)
      [] gates[g].type = "CNOTGate" -> 4

\* int(n ** (1 / q)) for n a q-th power: the float power is the root itself
\* but for the (n, q) below, where it is just under the root and int()
\* truncates it to the integer before.
RoundsBelow == {<<64, 3>>, <<125, 3>>, <<216, 3>>, <<343, 3>>, <<512, 3>>}
IntRoot(n, q) ==
    LET root == CHOOSE r \in 1 .. n : Pow(r, q) = n
    IN  IF <<n, q>> \in RoundsBelow THEN root - 1 ELSE root

\* utils.upgrade_qudits(OU, di, df): the matrix OU re-embedded from
\* dimension di into dimension df.
upgrade_qudits(OU, di, df) == <<[Gen("upgrade_qudits", <<di, df>>, 0) EXCEPT !.fs = <<OU>>]>>

\* UpgradedConstantGate.__init__(other, df): the exception raised, or the
\* new object.
UpgradedConstantGate_init(other, df) ==
    IF gates[other].num_inputs > 0 THEN [exc |-> "AttributeError", obj |-> <<>>]
    ELSE LET OU == Matrix(other, <<>>, "copy")
             di == IntRoot(Rows(other), gates[other].qudits)
         IN  IF df <= di THEN [exc |-> "AttributeError", obj |-> <<>>]
             ELSE [exc |-> "",
                   obj |-> <<[GateObj("UpgradedConstantGate", 0, gates[other].qudits, 0, 0, 0)
                                 EXCEPT !.kw = [df |-> df, U |-> upgrade_qudits(OU, di, df),
                                                subgate |-> other]]>>]

InitUpgrade ==
    /\ gates = <<XGate, CNOTGate, CustomGate(1)>>
    /\ lists = <<>>
    /\ ret = NoRet
    /\ tampers = 0
    /\ scratch = <<>>
    /\ thr = <<>>
    /\ calls = 0
    /\ sched = NoSched
    /\ heap = NoHeap

CanMake == Len(gates) < MaxObjects
Upgradable == {g \in DOMAIN gates : gates[g].type # "UpgradedConstantGate"}

NewIdentityGate(qudits, d) ==
    /\ gates' = Append(gates, IdentityGate(qudits, d))
    /\ ret' = [NoRet EXCEPT !.op = "IdentityGate", !.gate = Len(gates) + 1]
    /\ UNCHANGED <<heap, lists, tampers, scratch, thr, calls, sched>>

NewUpgradedConstantGate(other, df) ==
    LET r == UpgradedConstantGate_init(other, df)
    IN  /\ gates' = gates \o r.obj
        /\ ret' = [NoRet EXCEPT !.op = "UpgradedConstantGate", !.args = <<other>>,
                                !.val = <<df>>, !.exc = r.exc,
                                !.gate = IF r.exc = "" THEN Len(gates) + 1 ELSE 0]
        /\ UNCHANGED <<heap, lists, tampers, scratch, thr, calls, sched>>

CallIdentityGate ==
    CanMake /\ \E qudits \in 1 .. MaxQudits, d \in 2 .. MaxDim : NewIdentityGate(qudits, d)
CallUpgradedConstantGate ==
    CanMake /\ \E other \in Upgradable, df \in 2 .. MaxDim + 1 :
                   NewUpgradedConstantGate(other, df)

\* The vectors a gate is called with: as long as its parameters, or longer.
CallVectors(g) == ParamVectors(gates[g].num_inputs) \cup ParamVectors(gates[g].num_inputs + 1)
UpgradeMatrix == \E g \in DOMAIN gates : \E v \in CallVectors(g) : CallMatrix(g, v, "copy")
UpgradeMatJac == \E g \in DOMAIN gates : \E v \in CallVectors(g) : CallMatJac(g, v, "copy")

NextUpgrade ==
    \/ CallIdentityGate
    \/ CallUpgradedConstantGate
    \/ UpgradeMatrix
    \/ UpgradeMatJac

SpecUpgrade == InitUpgrade /\ [][NextUpgrade]_vars

(***************************************************************************)
(* Assembly.  assemble returns a list of descriptors: ("gate", name,       *)
(* params, indices) tuples and ("block", list) tuples, here records of one *)
(* shape; a call that raises returns none.                                 *)
(***************************************************************************)
GateDesc(name, params, indices) ==
    [kind |-> "gate", name |-> name, params |-> params, indices |-> indices, body |-> <<>>]
BlockDesc(body) ==
    [kind |-> "block", name |-> "", params |-> <<>>, indices |-> <<>>, body |-> body]
Assembled(out) == [exc |-> "", out |-> out]
AssembleRaised(exc) == [exc |-> exc, out |-> <<>>]

XGate_assemble(self, v, i) ==
    IF Len(v) = 0 THEN AssembleRaised("IndexError")
    ELSE Assembled(<<GateDesc("X", <<v[1]>>, <<i>>)>>)

CNOTGate_assemble(self, v, i) == Assembled(<<GateDesc("CNOT", <<>>, <<i, i + 1>>)>>)

NonadjacentCNOTGate_assemble(self, v, i) ==
    Assembled(<<GateDesc("CNOT", <<>>, <<gates[self].control, gates[self].target>>)>>)

\* CUGate.assemble reads flipped, a name bound in __init__ alone.
CUGate_assemble(self, v, i) == AssembleRaised("NameError")

\* The loop shared by the composites: out += gate.assemble(v[index:index +
\* gate.num_inputs], i); index += gate.num_inputs; and, in a KroneckerGate,
\* i += gate.qudits.
RECURSIVE Assemble(_, _, _)
RECURSIVE AssembleLoop(_, _, _, _, _, _)
AssembleLoop(subs, v, index, i, out, advance) ==
    IF subs = <<>> THEN Assembled(out)
    ELSE LET gate == Head(subs)
             r == Assemble(gate, PySlice(v, index, index + gates[gate].num_inputs), i)
         IN  IF r.exc # "" THEN r
             ELSE AssembleLoop(Tail(subs), v, index + gates[gate].num_inputs,
                               IF advance THEN i + gates[gate].qudits ELSE i,
                               out \o r.out, advance)

KroneckerGate_assemble_same_offset(self, v, i) ==
    LET r == AssembleLoop(Subgates(self), v, 0, i, <<>>, FALSE)
    IN  IF r.exc # "" THEN r ELSE Assembled(<<BlockDesc(r.out)>>)
KroneckerGate_assemble(self, v, i) ==
    LET r == AssembleLoop(Subgates(self), v, 0, i, <<>>, TRUE)
    IN  IF r.exc # "" THEN r ELSE Assembled(<<BlockDesc(r.out)>>)

ProductGate_assemble(self, v, i) == AssembleLoop(Subgates(self), v, 0, i, <<>>, FALSE)

Assemble(g, v, i) ==
    CASE gates[g].type = "XGate" -> XGate_assemble(g, v, i)
      [] gates[g].type = "CNOTGate" -> CNOTGate_assemble(g, v, i)
      [] gates[g].type = "NonadjacentCNOTGate" -> NonadjacentCNOTGate_assemble(g, v, i)
      [] gates[g].type = "CUGate" -> CUGate_assemble(g, v, i)
      [] gates[g].type = "KroneckerGate" -> KroneckerGate_assemble(g, v, i)
      [] gates[g].type = "ProductGate" -> ProductGate_assemble(g, v, i)

(***************************************************************************)
(* The assembly specification: a harness holding an XGate, a CNOTGate, a   *)
(* NonadjacentCNOTGate and two CUGates, one of them flipped, builds        *)
(* composites and assembles what it holds at an offset.                    *)
(***************************************************************************)
InitAssemble ==
    /\ gates = <<XGate, CNOTGate, NonadjacentCNOTGate(3, 0, 2),
                 CUGate("H", "Name", <<>>, FALSE), CUGate("H", "Name", <<>>, TRUE)>>
    /\ lists = <<>>
    /\ ret = NoRet
    /\ tampers = 0
    /\ scratch = <<>>
    /\ thr = <<>>
    /\ calls = 0
    /\ sched = NoSched
    /\ heap = NoHeap

CallAssemble(g, v, i) ==
    /\ calls < MaxCalls
    /\ calls' = calls + 1
    /\ LET r == Assemble(g, v, i)
       IN  ret' = [NoRet EXCEPT !.op = "assemble", !.recv = g, !.v = v, !.args = <<i>>,
                                !.exc = r.exc, !.val = r.out]
    /\ UNCHANGED <<heap, gates, lists, tampers, scratch, thr, sched>>

AssembleAny ==
    \E g \in DOMAIN gates :
        /\ gates[g].num_inputs <= MaxInputs
        /\ \E v \in ParamVectors(gates[g].num_inputs), i \in 0 .. MaxOffset :
               CallAssemble(g, v, i)

NextAssemble ==
    \/ CallProductGate
    \/ CallKroneckerGate
    \/ AssembleAny

SpecAssemble == InitAssemble /\ [][NextAssemble]_vars

(***************************************************************************)
(* Buffers.  Which array a call returns and which arrays it writes, apart  *)
(* from what the arrays hold: heap.mem is the arrays made so far, each     *)
(* with the number of writes it has taken, and a call threads the memory h *)
(* through its statements and returns [h, mat, jacs], mat and jacs naming  *)
(* arrays.  A gate's kw names the arrays it keeps.                         *)
(***************************************************************************)
Buf(kind) == [kind |-> kind, writes |-> 0]
\* the k-th array made from h on, and h after making k arrays
Fresh(h, k) == Len(h.mem) + k
np_array(h, k) == [h EXCEPT !.mem = @ \o [i \in 1 .. k |-> Buf("fresh")]]
\* h after writing the arrays bs, one after the other
WriteAll(h, bs) ==
    [h EXCEPT !.mem = [b \in DOMAIN @ |->
        [@[b] EXCEPT !.writes = @ + Cardinality({k \in DOMAIN bs : bs[k] = b})]]]

\* ZXZXZGate and XZXZGate with _x90, _rot_z, _out and _buffer at b .. b + 3,
\* CNOTGate with the class's _cnot at b.
ZXZXZGateAt(b) ==
    [ZXZXZGate EXCEPT !.kw = [x90 |-> b, rot_z |-> b + 1, out |-> b + 2, buffer |-> b + 3]]
XZXZGateAt(b) ==
    [XZXZGate EXCEPT !.kw = [x90 |-> b, rot_z |-> b + 1, out |-> b + 2, buffer |-> b + 3]]
CNOTGateAt(b) == [CNOTGate EXCEPT !.kw = [cnot |-> b]]

\* The writes up to a np.dot(self._rot_z, self._out): re_rot_z, the dots
\* into _out and _buffer, re_rot_z again.
ZXZXZ_writes(kw) == <<kw.rot_z, kw.out, kw.rot_z, kw.buffer, kw.out, kw.rot_z>>
XZXZ_writes(kw) == <<kw.rot_z, kw.buffer, kw.out, kw.rot_z>>

ZXZXZGate_matrix_buffers(h, self) ==
    LET h1 == WriteAll(h, ZXZXZ_writes(gates[self].kw))
    IN  [h |-> np_array(h1, 1), mat |-> Fresh(h1, 1), jacs |-> <<>>]
ZXZXZGate_mat_jac_buffers(h, self) ==
    LET kw == gates[self].kw
        h1 == WriteAll(h, ZXZXZ_writes(kw) \o ZXZXZ_writes(kw) \o ZXZXZ_writes(kw)
                              \o <<kw.rot_z>>)
    IN  [h |-> np_array(h1, 4), mat |-> Fresh(h1, 4),
         jacs |-> <<Fresh(h1, 1), Fresh(h1, 2), Fresh(h1, 3)>>]
XZXZGate_matrix_buffers(h, self) ==
    LET h1 == WriteAll(h, XZXZ_writes(gates[self].kw))
    IN  [h |-> np_array(h1, 1), mat |-> Fresh(h1, 1), jacs |-> <<>>]
XZXZGate_mat_jac_buffers(h, self) ==
    LET kw == gates[self].kw
        h1 == WriteAll(h, XZXZ_writes(kw) \o XZXZ_writes(kw) \o <<kw.rot_z>>)
    IN  [h |-> np_array(h1, 3), mat |-> Fresh(h1, 3),
         jacs |-> <<Fresh(h1, 1), Fresh(h1, 2)>>]

\* CNOTGate.matrix returns the class's array; its mat_jac is Gate.mat_jac.
CNOTGate_matrix_buffers(h, self) == [h |-> h, mat |-> gates[self].kw.cnot, jacs |-> <<>>]

RECURSIVE MatrixBuffers(_, _)
RECURSIVE MatJacBuffers(_, _)

\* F(x), with x evaluated once.
Bind(x, F(_)) == CHOOSE y \in {F(v) : v \in {x}} : TRUE

\* The first loop of the composites' matrix (jac = FALSE) and mat_jac.
RECURSIVE ChildBuffers(_, _, _)
ChildBuffers(h, subs, jac) ==
    IF subs = <<>> THEN [h |-> h, res |-> <<>>]
    ELSE Bind(IF jac THEN MatJacBuffers(h, Head(subs)) ELSE MatrixBuffers(h, Head(subs)),
              LAMBDA r : Bind(ChildBuffers(r.h, Tail(subs), jac),
                  LAMBDA rest : [h |-> rest.h,
                                 res |-> <<[mat |-> r.mat, jacs |-> r.jacs]>> \o rest.res]))

\* KroneckerGate.matrix: one np.kron for every child after the first.
KroneckerGate_matrix_buffers(h, self) ==
    IF Len(Subgates(self)) < 2 THEN MatrixBuffers(h, Subgates(self)[1])
    ELSE Bind(ChildBuffers(h, Subgates(self), FALSE),
              LAMBDA c : [h |-> np_array(c.h, Len(c.res) - 1),
                          mat |-> Fresh(c.h, Len(c.res) - 1), jacs |-> <<>>])

\* KroneckerGate.mat_jac: the body of its second loop for one child (M, Js);
\* U = 0 stands for None.
KronStepBuffers(s, MJ) ==
    LET extended == [i \in DOMAIN s.jacs |-> Fresh(s.h, i)]
        h1 == np_array(s.h, Len(s.jacs))
        own == IF s.U = 0 THEN MJ.jacs ELSE [i \in DOMAIN MJ.jacs |-> Fresh(h1, i)]
        h2 == IF s.U = 0 THEN h1 ELSE np_array(h1, Len(MJ.jacs))
    IN  [h |-> IF s.U = 0 THEN h2 ELSE np_array(h2, 1),
         U |-> IF s.U = 0 THEN MJ.mat ELSE Fresh(h2, 1),
         jacs |-> extended \o own]
RECURSIVE KronLoopBuffers(_, _)
KronLoopBuffers(s, matjacs) ==
    IF matjacs = <<>> THEN s
    ELSE Bind(KronStepBuffers(s, Head(matjacs)),
              LAMBDA t : KronLoopBuffers(t, Tail(matjacs)))
KroneckerGate_mat_jac_buffers(h, self) ==
    IF Len(Subgates(self)) < 2 THEN MatJacBuffers(h, Subgates(self)[1])
    ELSE Bind(ChildBuffers(h, Subgates(self), TRUE),
              LAMBDA c : Bind(KronLoopBuffers([h |-> c.h, U |-> 0, jacs |-> <<>>], c.res),
                  LAMBDA done : [h |-> done.h, mat |-> done.U, jacs |-> done.jacs]))

\* ProductGate.matrix: buffer1 and buffer2 are copies of the first matrix;
\* every pass multiplies into buffer1 and leaves both names on it.
RECURSIVE ProductGate_matrix_loop_buffers(_, _)
ProductGate_matrix_loop_buffers(s, passes) ==
    IF passes = 0 THEN s
    ELSE Bind([s EXCEPT !.h = WriteAll(@, <<s.buffer1>>), !.U = s.buffer1,
                        !.buffer2 = s.buffer1, !.buffer1 = s.buffer1],
              LAMBDA t : ProductGate_matrix_loop_buffers(t, passes - 1))
ProductGate_matrix_buffers(h, self) ==
    IF Len(Subgates(self)) < 2 THEN MatrixBuffers(h, Subgates(self)[1])
    ELSE Bind(ChildBuffers(h, Subgates(self), FALSE),
              LAMBDA c : Bind(ProductGate_matrix_loop_buffers(
                                  [h |-> np_array(c.h, 2), U |-> c.res[1].mat,
                                   buffer1 |-> Fresh(c.h, 1), buffer2 |-> Fresh(c.h, 2)],
                                  Len(c.res) - 1),
                  LAMBDA done : [h |-> done.h, mat |-> done.U, jacs |-> <<>>]))

\* ProductGate.mat_jac.  The three statements that close a pass of its first
\* loop: buffertmp = ba2; ba2 = ba1; ba1 = ba2.
ProductGate_mat_jac_swap_rotating(s) == [s EXCEPT !.ba2 = s.ba1, !.ba1 = s.ba2]
ProductGate_mat_jac_swap(s) == [s EXCEPT !.ba2 = s.ba1, !.ba1 = s.ba1]
RECURSIVE ProductGate_mat_jac_loop1_buffers(_, _)
ProductGate_mat_jac_loop1_buffers(s, passes) ==
    IF passes = 0 THEN s
    ELSE Bind([s EXCEPT !.h = WriteAll(@, <<s.ba1>>), !.A = s.ba1],
              LAMBDA t : Bind(ProductGate_mat_jac_swap(t),
                  LAMBDA u : ProductGate_mat_jac_loop1_buffers(u, passes - 1)))
\* The inner loop for the Jacobians Js of one child: each product goes into
\* bj and from there into J itself, which is appended to jacs.
ProductGate_mat_jac_inner_buffers(s, Js) ==
    [s EXCEPT !.h = WriteAll(@, [k \in DOMAIN Js |-> s.bj] \o Js), !.jacs = @ \o Js]
\* A pass of the second loop: A into ba1, the inner loop, B into bb1, then
\* ba1 and ba2 change places and so do bb1 and bb2.
ProductGate_mat_jac_child_buffers(s, Js) ==
    Bind(ProductGate_mat_jac_inner_buffers(
             [s EXCEPT !.h = WriteAll(@, <<s.ba1>>), !.A = s.ba1], Js),
         LAMBDA t : [t EXCEPT !.h = WriteAll(@, <<t.bb1>>), !.B = t.bb1,
                              !.ba1 = t.ba2, !.ba2 = t.ba1,
                              !.bb1 = t.bb2, !.bb2 = t.bb1])
RECURSIVE ProductGate_mat_jac_loop2_buffers(_, _)
ProductGate_mat_jac_loop2_buffers(s, subjacs) ==
    IF subjacs = <<>> THEN s
    ELSE Bind(ProductGate_mat_jac_child_buffers(s, Head(subjacs)),
              LAMBDA t : ProductGate_mat_jac_loop2_buffers(t, Tail(subjacs)))
\* B = np.eye(...), ba1 = A.copy(), bb1 = B.copy() and bj = B.copy() are the
\* four arrays made after the children have been evaluated.
ProductGate_mat_jac_start(c) ==
    [h |-> np_array(c.h, 4),
     B |-> Fresh(c.h, 1), A |-> c.res[1].mat,
     ba1 |-> Fresh(c.h, 2), ba2 |-> c.res[1].mat,
     bb1 |-> Fresh(c.h, 3), bb2 |-> Fresh(c.h, 1),
     bj |-> Fresh(c.h, 4), jacs |-> <<>>]
ProductGate_mat_jac_buffers(h, self) ==
    IF Len(Subgates(self)) < 2 THEN MatJacBuffers(h, Subgates(self)[1])
    ELSE Bind(ChildBuffers(h, Subgates(self), TRUE),
         LAMBDA c : Bind(ProductGate_mat_jac_loop1_buffers(ProductGate_mat_jac_start(c),
                                                           Len(c.res) - 1),
         LAMBDA after : Bind(ProductGate_mat_jac_loop2_buffers(
                                 after, [i \in DOMAIN c.res |-> c.res[i].jacs]),
         LAMBDA done : [h |-> done.h, mat |-> done.B, jacs |-> done.jacs])))

MatrixBuffers(h, g) ==
    CASE gates[g].type = "ZXZXZGate" -> ZXZXZGate_matrix_buffers(h, g)
      [] gates[g].type = "XZXZGate" -> XZXZGate_matrix_buffers(h, g)
      [] gates[g].type = "CNOTGate" -> CNOTGate_matrix_buffers(h, g)
      [] gates[g].type = "KroneckerGate" -> KroneckerGate_matrix_buffers(h, g)
      [] gates[g].type = "ProductGate" -> ProductGate_matrix_buffers(h, g)

MatJacBuffers(h, g) ==
    CASE gates[g].type = "ZXZXZGate" -> ZXZXZGate_mat_jac_buffers(h, g)
      [] gates[g].type = "XZXZGate" -> XZXZGate_mat_jac_buffers(h, g)
      [] gates[g].type = "CNOTGate" -> CNOTGate_matrix_buffers(h, g)
      [] gates[g].type = "KroneckerGate" -> KroneckerGate_mat_jac_buffers(h, g)
      [] gates[g].type = "ProductGate" -> ProductGate_mat_jac_buffers(h, g)

(***************************************************************************)
(* The buffer specification: a harness holding a ZXZXZGate, an XZXZGate    *)
(* and a CNOTGate builds composites and calls matrix and mat_jac, keeping  *)
(* every array it is handed.                                               *)
(***************************************************************************)
InitBuffers ==
    /\ gates = <<ZXZXZGateAt(1), XZXZGateAt(5), CNOTGateAt(9)>>
    /\ lists = <<>>
    /\ ret = NoRet
    /\ tampers = 0
    /\ scratch = <<>>
    /\ thr = <<>>
    /\ calls = 0
    /\ sched = NoSched
    /\ heap = [mem |-> [b \in 1 .. 9 |-> Buf(IF b = 9 THEN "stored" ELSE "scratch")],
               returned |-> {}]

\* The caller keeps the arrays bs as they are now.
Keep(h, bs) == {[buf |-> bs[k], writes |-> h.mem[bs[k]].writes] : k \in DOMAIN bs}

CallBuffers(op, g) ==
    /\ calls < MaxBufferCalls
    /\ calls' = calls + 1
    /\ \E r \in {IF op = "matrix" THEN MatrixBuffers(heap, g) ELSE MatJacBuffers(heap, g)} :
           /\ heap' = [mem |-> r.h.mem,
                       returned |-> heap.returned \cup Keep(r.h, <<r.mat>> \o r.jacs)]
           /\ ret' = [NoRet EXCEPT !.op = op, !.recv = g, !.val = <<r.mat>> \o r.jacs]
    /\ UNCHANGED <<gates, lists, tampers, scratch, thr, sched>>

BuffersMatrix == \E g \in DOMAIN gates : Evaluable(g) /\ CallBuffers("matrix", g)
BuffersMatJac == \E g \in DOMAIN gates : Evaluable(g) /\ CallBuffers("mat_jac", g)

NextBuffers ==
    \/ CallProductGate
    \/ CallKroneckerGate
    \/ BuffersMatrix
    \/ BuffersMatJac

SpecBuffers == InitBuffers /\ [][NextBuffers]_vars

(***************************************************************************)
(* Claims about the constructors and the builder methods (under Spec).     *)
(***************************************************************************)
IsProduct(g) == gates[g].type = "ProductGate"

\* What argument a of a ProductGate constructor call contributes, by position:
\* its stored children if it is a ProductGate, itself otherwise.
Contribution(a) == IF IsProduct(a) THEN Subgates(a) ELSE <<a>>
OffsetOf(args, i) == SumSeq([k \in 1 .. (i - 1) |-> Len(Contribution(args[k]))])
IsConcatenation(list, args) ==
    /\ Len(list) = OffsetOf(args, Len(args) + 1)
    /\ \A i \in DOMAIN args : \A j \in DOMAIN Contribution(args[i]) :
           list[OffsetOf(args, i) + j] = Contribution(args[i])[j]

\* C1: no ProductGate stores a ProductGate as a child, whichever constructor
\* or builder call made it, and the list a ProductGate constructor call stores
\* is the in-order concatenation of what its arguments contribute.
C1_Flattening ==
    /\ \A p \in DOMAIN gates : IsProduct(p) =>
           \A i \in DOMAIN Subgates(p) : ~IsProduct(Subgates(p)[i])
    /\ ret.op = "ProductGate" => IsConcatenation(Subgates(ret.gate), ret.args)

\* A ProductGate was constructed from a ProductGate with two children followed
\* by another gate.
C1_Witness ==
    /\ ret.op = "ProductGate"
    /\ Len(ret.args) = 2
    /\ IsProduct(ret.args[1]) /\ Len(Subgates(ret.args[1])) = 2
    /\ ~IsProduct(ret.args[2])
    /\ Len(Subgates(ret.gate)) = 3

\* C6: inserting with the default or a negative depth prepends the (flattened)
\* new operators to the receiver's children; with 0 <= depth <= n it splices
\* them in before child index depth.
C6_InsertingPrepends ==
    (ret.op = "inserting" /\ Len(ret.before) >= 1) =>
        LET new == FlattenArgs(ret.args)
            n == Len(ret.before)
        IN  /\ ret.depth < 0 => Subgates(ret.gate) = new \o ret.before
            /\ (0 <= ret.depth /\ ret.depth <= n) =>
                   Subgates(ret.gate) =
                       SubSeq(ret.before, 1, ret.depth) \o new
                           \o SubSeq(ret.before, ret.depth + 1, n)

\* C7: a builder call leaves every object and every list that existed before
\* it as it was (so the receiver's children, counts and canonical key), and
\* returns an object that is not the receiver and does not share its list.
IsBuilderCall(r) == r.op \in {"appending", "inserting", "kron_appending"}
C7_BuildersDoNotMutate ==
    [][IsBuilderCall(ret') =>
          /\ \A g \in DOMAIN gates : g \in DOMAIN gates' /\ gates'[g] = gates[g]
          /\ \A l \in DOMAIN lists : l \in DOMAIN lists' /\ lists'[l] = lists[l]
          /\ \A g \in DOMAIN gates : g = ret'.recv => Repr(g)' = Repr(g)
          /\ lists'[gates'[ret'.recv].sub] = ret'.before
          /\ ret'.gate # ret'.recv
          /\ gates'[ret'.gate].sub # gates'[ret'.recv].sub]_vars

\* A builder call with a non-empty receiver and at least one new gate returned.
C7_Witness ==
    /\ IsBuilderCall(ret)
    /\ Len(ret.before) >= 1
    /\ Len(ret.args) >= 1
    /\ Len(Subgates(ret.gate)) > Len(ret.before)

(***************************************************************************)
(* Claims about validate_structure (under SpecValidate).                   *)
(***************************************************************************)
\* What the specification calls a consistent structure.
RECURSIVE Consistent(_)
Consistent(g) ==
    LET o == gates[g]
    IN  CASE o.type = "KroneckerGate" ->
               /\ o.num_inputs = SumInputs(Subgates(g))
               /\ o.qudits = SumQudits(Subgates(g))
               /\ \A i \in DOMAIN Subgates(g) : Consistent(Subgates(g)[i])
          [] o.type = "ProductGate" ->
               /\ o.num_inputs = SumInputs(Subgates(g))
               /\ \A i \in DOMAIN Subgates(g) :
                      /\ gates[Subgates(g)[i]].qudits = o.qudits
                      /\ Consistent(Subgates(g)[i])
          [] o.type = "NonadjacentCNOTGate" ->
               /\ 0 <= o.control /\ o.control < o.qudits
               /\ 0 <= o.target /\ o.target < o.qudits
               /\ o.control # o.target
          [] OTHER -> TRUE

Validated(type) == ret.op = "validate_structure" /\ gates[ret.recv].type = type
ReturnedFlag(flag) == ret.exc = "" /\ ret.flag = flag

\* Whether a ProductGate occurs in the tree of g.
RECURSIVE HasProduct(_)
HasProduct(g) ==
    \/ gates[g].type = "ProductGate"
    \/ IsComposite(g) /\ \E i \in DOMAIN Subgates(g) : HasProduct(Subgates(g)[i])

\* C8: KroneckerGate.validate_structure returns False, raising nothing, when a
\* declared count differs from the sum over the stored children, and returns
\* True when the counts match and the children are all valid (stated here for
\* children whose trees hold no ProductGate, whose validation is C9's).
C8_KroneckerValidation ==
    Validated("KroneckerGate") =>
        LET o == gates[ret.recv]
            subs == Subgates(ret.recv)
            mismatch == o.num_inputs # SumInputs(subs) \/ o.qudits # SumQudits(subs)
        IN  /\ mismatch => ReturnedFlag("False")
            /\ (~mismatch /\ \A i \in DOMAIN subs :
                                  Consistent(subs[i]) /\ ~HasProduct(subs[i])) =>
                   ReturnedFlag("True")

\* C9: ProductGate.validate_structure returns True when every child has the
\* node's qudit count and the parameter counts sum to the declared total, and
\* returns False, raising nothing, when a child's qudit count or the sum differs.
C9_ProductValidation ==
    Validated("ProductGate") =>
        LET o == gates[ret.recv]
            subs == Subgates(ret.recv)
            sameQudits == \A i \in DOMAIN subs : gates[subs[i]].qudits = o.qudits
            sameInputs == o.num_inputs = SumInputs(subs)
        IN  /\ (sameQudits /\ sameInputs
                   /\ \A i \in DOMAIN subs : Consistent(subs[i])) => ReturnedFlag("True")
            /\ (~sameQudits \/ ~sameInputs) => ReturnedFlag("False")

\* C10: NonadjacentCNOTGate.validate_structure returns False, raising nothing,
\* when control >= qudits, target >= qudits or control = target, and True when
\* both indices are in range and differ.
C10_PositionalValidation ==
    Validated("NonadjacentCNOTGate") =>
        LET o == gates[ret.recv]
        IN  /\ (o.control >= o.qudits \/ o.target >= o.qudits \/ o.control = o.target) =>
                   ReturnedFlag("False")
            /\ (o.control < o.qudits /\ o.target < o.qudits /\ o.control # o.target) =>
                   ReturnedFlag("True")


(***************************************************************************)
(* Claims about matrix and mat_jac of the composites (under SpecEval).     *)
(* M_k and J_{k,p} are what child k returns on its slice of v, from the    *)
(* numpy the call itself runs on.                                          *)
(***************************************************************************)
Called(op, type) == ret.op = op /\ gates[ret.recv].type = type
Children == Subgates(ret.recv)
ParamCount(k) == gates[Children[k]].num_inputs
SliceStart(k) == SumSeq([j \in 1 .. k - 1 |-> ParamCount(j)])
RefSlice(k) == SubSeq(ret.v, SliceStart(k) + 1, SliceStart(k) + ParamCount(k))
ChildMatrix(k) == Matrix(Children[k], RefSlice(k), ret.ov)
ChildMatJac(k) == MatJac(Children[k], RefSlice(k), ret.ov)

\* M_hi * ... * M_lo of the matrices M, the identity when hi < lo
RECURSIVE RefProduct(_, _, _)
RefProduct(M, hi, lo) == IF hi < lo THEN Eye ELSE MatMul(M[hi], RefProduct(M, hi - 1, lo))

\* the Kronecker product of the matrices M, left to right
RECURSIVE AllFactors(_)
AllFactors(M) == IF M = <<>> THEN <<>> ELSE Factors(Head(M)) \o AllFactors(Tail(M))
RefKron(M) == KronOf(AllFactors(M))

\* C2: for a ProductGate with n >= 2 stored children, matrix(v) is
\* M_n * ... * M_2 * M_1, M_k being the k-th child's matrix on the k-th
\* contiguous slice of v; for every n, also n >= 3 where a multiplication
\* writes into one of its own operands.
C2_ProductMatrix ==
    (Called("matrix", "ProductGate") /\ Len(Children) >= 2) =>
        ret.mat = RefProduct([k \in DOMAIN Children |-> ChildMatrix(k)], Len(Children), 1)

\* C3: for a ProductGate with n >= 2 children of unitary matrices,
\* mat_jac(v) returns (U, jacs) with U = matrix(v), one entry of jacs per
\* parameter in the order of the flat parameter vector, and the entry for
\* parameter p of child k equal to
\* (M_n * ... * M_{k+1}) * J_{k,p} * (M_{k-1} * ... * M_1).
C3_ProductMatJac ==
    LET n == Len(Children)
        M == [k \in DOMAIN Children |-> ChildMatJac(k).mat]
    IN  (/\ Called("mat_jac", "ProductGate")
         /\ n >= 2
         /\ \A k \in 1 .. n : IsUnitary(M[k])) =>
            /\ ret.mat = ProductGate_matrix(ret.recv, ret.v, ret.ov)
            /\ Len(ret.jacs) = gates[ret.recv].num_inputs
            /\ \A k \in 1 .. n : \A p \in 1 .. ParamCount(k) :
                   /\ SliceStart(k) + p \in DOMAIN ret.jacs
                   /\ ret.jacs[SliceStart(k) + p] =
                          MatMul(MatMul(RefProduct(M, n, k + 1), ChildMatJac(k).jacs[p]),
                                 RefProduct(M, k - 1, 1))

\* C4: for a KroneckerGate with n >= 2 children, mat_jac(v) returns
\* (U, jacs) with U the left-to-right Kronecker product of the children's
\* matrices on their slices, one entry of jacs per parameter in flat
\* parameter order, the entry for parameter p of child c being the Kronecker
\* product of the children's matrices with that of c replaced by J_{c,p};
\* jacs is empty when no child has parameters.
C4_KroneckerMatJac ==
    LET n == Len(Children)
        M == [k \in DOMAIN Children |-> ChildMatJac(k).mat]
    IN  (Called("mat_jac", "KroneckerGate") /\ n >= 2) =>
            /\ ret.mat = RefKron(M)
            /\ Len(ret.jacs) = gates[ret.recv].num_inputs
            /\ \A c \in 1 .. n : \A p \in 1 .. ParamCount(c) :
                   /\ SliceStart(c) + p \in DOMAIN ret.jacs
                   /\ ret.jacs[SliceStart(c) + p] =
                          RefKron([M EXCEPT ![c] = ChildMatJac(c).jacs[p]])
            /\ (\A c \in 1 .. n : ParamCount(c) = 0) => ret.jacs = <<>>

\* A KroneckerGate of three children, the first two with parameters, has
\* returned from mat_jac; and one without any parameter has.
C4_Witness ==
    /\ Called("mat_jac", "KroneckerGate")
    /\ Len(Children) = 3
    /\ ParamCount(1) > 0 /\ ParamCount(2) > 0
    /\ Len(ret.jacs) >= 2

\* The same two claims on a numpy that multiplies into a temporary when the
\* output overlaps an operand: there the code computes what C2 and C3 say.
ProductMatrixOnCopy == ret.ov = "copy" => C2_ProductMatrix
ProductMatJacOnCopy == ret.ov = "copy" => C3_ProductMatJac


(***************************************************************************)
(* The claim about concurrent calls (under SpecThreads).                   *)
(***************************************************************************)
\* C5: when two threads call matrix or mat_jac on the same instance with
\* different parameter vectors, every call returns, under every
\* interleaving of their statements, what it returns when run alone; for
\* ZXZXZGate and XZXZGate in particular.
C5_ConcurrentCalls ==
    (/\ \A t \in Threads : thr[t].pc > 0
     /\ thr[1].v # thr[2].v) =>
        \A t \in Threads :
            thr[t].done => thr[t].res = Alone(gates[Shared].type, thr[t].op, thr[t].v)

(***************************************************************************)
(* The derived counts of the composites (under Spec).                      *)
(***************************************************************************)
QuditsOf(children) == {gates[children[i]].qudits : i \in DOMAIN children}

\* C17: for every composite made by any sequence of constructor, appending
\* and inserting calls, num_inputs is the sum of the stored children's; a
\* KroneckerGate's qudits is the sum of its children's; a ProductGate whose
\* children all share one qudit count has that qudit count.
C17_DerivedCounts ==
    \A g \in Composites :
        /\ gates[g].num_inputs = SumInputs(Subgates(g))
        /\ gates[g].type = "KroneckerGate" => gates[g].qudits = SumQudits(Subgates(g))
        /\ (gates[g].type = "ProductGate" /\ Cardinality(QuditsOf(Subgates(g))) = 1) =>
               QuditsOf(Subgates(g)) = {gates[g].qudits}

(***************************************************************************)
(* Claims about equality and hashing (under SpecIdentity).                 *)
(***************************************************************************)
\* Same types, same constant constructor arguments, same children in the
\* same order and nesting.
RECURSIVE SameStructure(_, _)
SameStructure(a, b) ==
    /\ gates[a].type = gates[b].type
    /\ IF IsComposite(a)
       THEN /\ Len(Subgates(a)) = Len(Subgates(b))
            /\ \A i \in DOMAIN Subgates(a) : SameStructure(Subgates(a)[i], Subgates(b)[i])
       ELSE gates[a] = gates[b]

\* C11: for two operator trees, a == b holds if and only if they have the
\* same types, constant constructor arguments and child structure; the
\* comparison never raises, for every operator kind, UGate and CUGate too.
C11_CanonicalEquality ==
    ret.op = "eq" =>
        /\ ret.exc = ""
        /\ ret.flag = "True" <=> SameStructure(ret.recv, ret.args[1])

\* C12: hash(op) is defined for every operator kind, also for those that
\* override equality, and is the MD5 digest of the canonical key; a == b
\* implies hash(a) == hash(b).
C12_StableHash ==
    /\ ret.op = "hash" =>
           /\ ret.exc = ""
           /\ ret.val = md5(Repr(ret.recv))
    /\ (ret.op = "eq" /\ ret.flag = "True") =>
           /\ Gate_hash(ret.recv).exc = "" /\ Gate_hash(ret.args[1]).exc = ""
           /\ Gate_hash(ret.recv).val = Gate_hash(ret.args[1]).val

(***************************************************************************)
(* Claims about the upgrade and the default mat_jac (under SpecUpgrade).   *)
(***************************************************************************)
\* The qudit dimension a gate is defined over.
SourceDim(g) == IF gates[g].type = "IdentityGate" THEN gates[g].kw.d ELSE 2

\* C13: constructing an UpgradedConstantGate raises, and yields no gate,
\* when the source has parameters or df is at most the source's dimension;
\* otherwise it succeeds with num_inputs 0 and the source's qudits.
C13_UpgradeErrors ==
    ret.op = "UpgradedConstantGate" =>
        LET other == ret.args[1]
            df == ret.val[1]
        IN  IF gates[other].num_inputs > 0 \/ df <= SourceDim(other)
            THEN ret.exc # "" /\ ret.gate = 0
            ELSE /\ ret.exc = "" /\ ret.gate # 0
                 /\ gates[ret.gate].type = "UpgradedConstantGate"
                 /\ gates[ret.gate].num_inputs = 0
                 /\ gates[ret.gate].qudits = gates[other].qudits

\* The gates whose class supplies its own mat_jac, and the vectors tried.
SuppliesMatJac(g) == gates[g].type \in {"XGate", "U2Gate", "KroneckerGate", "ProductGate"}
AnyVector == UNION {ParamVectors(n) : n \in 0 .. MaxInputs}

\* C14: mat_jac of a gate that supplies none of its own returns
\* (matrix(v), []) when the gate has no parameters and raises
\* NotImplementedError, returning nothing, when it has some; the matrix of a
\* primitive without parameters is the same for every vector passed.
C14_DefaultMatJac ==
    /\ (ret.op = "mat_jac" /\ ~SuppliesMatJac(ret.recv)) =>
           IF gates[ret.recv].num_inputs = 0
           THEN /\ ret.exc = ""
                /\ ret.mat = Matrix(ret.recv, ret.v, ret.ov)
                /\ ret.jacs = <<>>
           ELSE /\ ret.exc = "NotImplementedError"
                /\ ret.mat = <<>> /\ ret.jacs = <<>>
    /\ (ret.op = "matrix" /\ ~IsComposite(ret.recv) /\ gates[ret.recv].num_inputs = 0) =>
           \A w \in AnyVector : Matrix(ret.recv, w, ret.ov) = ret.mat

\* C14 witness: mat_jac raised on the parameterized gate that supplies none,
\* while an upgraded gate and an IdentityGate, both constant, are held.
C14_Witness ==
    /\ ret.op = "mat_jac" /\ gates[ret.recv].type = "CustomGate"
    /\ ret.exc = "NotImplementedError"
    /\ \E g \in DOMAIN gates : gates[g].type = "UpgradedConstantGate"

(***************************************************************************)
(* Claims about assemble (under SpecAssemble).                             *)
(***************************************************************************)
Offset == ret.args[1]
QuditsBefore(k) == SumSeq([j \in 1 .. k - 1 |-> gates[Children[j]].qudits])
RECURSIVE Concat(_)
Concat(ss) == IF ss = <<>> THEN <<>> ELSE Head(ss) \o Concat(Tail(ss))

\* What the children assemble to, child k at offset offs[k]: the
\* concatenation of their lists, or the exception of the first that raises.
RefAssembly(offs) ==
    LET rs == [k \in DOMAIN Children |-> Assemble(Children[k], RefSlice(k), offs[k])]
        exc == FirstExc([k \in DOMAIN rs |-> rs[k].exc])
    IN  IF exc # "" THEN AssembleRaised(exc)
        ELSE Assembled(Concat([k \in DOMAIN rs |-> rs[k].out]))

\* C15: KroneckerGate.assemble(v, i) returns exactly one block holding the
\* concatenation, in child order, of what child k assembles to for its
\* slice of v at offset i plus the qudits of the children before it;
\* ProductGate.assemble(v, i) returns the concatenation of what the
\* children assemble to for their slices, all at offset i.
C15_AssemblyThreading ==
    /\ Called("assemble", "KroneckerGate") =>
           LET r == RefAssembly([k \in DOMAIN Children |-> Offset + QuditsBefore(k)])
           IN  /\ ret.exc = r.exc
               /\ r.exc = "" => ret.val = <<BlockDesc(r.out)>>
    /\ Called("assemble", "ProductGate") =>
           LET r == RefAssembly([k \in DOMAIN Children |-> Offset])
           IN  /\ ret.exc = r.exc
               /\ r.exc = "" => ret.val = r.out

\* C15 witness: a KroneckerGate whose second child is a ProductGate of two
\* gates was assembled at a non-zero offset and returned.
C15_Witness ==
    /\ Called("assemble", "KroneckerGate") /\ ret.exc = "" /\ Offset > 0
    /\ Len(Children) = 2
    /\ gates[Children[1]].qudits > 0
    /\ gates[Children[2]].type = "ProductGate"
    /\ Len(Subgates(Children[2])) = 2 /\ gates[Children[2]].num_inputs > 0

\* C16: CUGate.assemble(v, i) returns one gate descriptor with the gate's
\* name and parameters and the indices (i, i + 1), or (i + 1, i) when the
\* gate is flipped.
C16_ControlledAssembly ==
    Called("assemble", "CUGate") =>
        LET kw == gates[ret.recv].kw
        IN  /\ ret.exc = ""
            /\ ret.val = <<GateDesc(kw.gatename, kw.gateparams,
                                    IF kw.flipped THEN <<Offset + 1, Offset>>
                                    ELSE <<Offset, Offset + 1>>)>>

\* The qudit indices of the gate descriptors in a list, blocks included.
RECURSIVE Indices(_)
Indices(descs) ==
    UNION {IF descs[k].kind = "block" THEN Indices(descs[k].body)
           ELSE {descs[k].indices[j] : j \in DOMAIN descs[k].indices} : k \in DOMAIN descs}

\* C20: every qudit index assemble(v, i) emits for a gate of q qudits lies
\* in i .. i + q - 1.
C20_IndicesInRange ==
    (ret.op = "assemble" /\ ret.exc = "") =>
        \A idx \in Indices(ret.val) :
            Offset <= idx /\ idx < Offset + gates[ret.recv].qudits

(***************************************************************************)
(* Claim about nested validation (under SpecNested).                       *)
(***************************************************************************)
\* The gates below g in its tree.
RECURSIVE Descendants(_)
Descendants(g) ==
    IF ~IsComposite(g) THEN {}
    ELSE UNION {{Subgates(g)[i]} \cup Descendants(Subgates(g)[i]) : i \in DOMAIN Subgates(g)}

\* C18: when validate_structure of a gate below a composite returns False,
\* validate_structure of the composite returns False.
C18_ValidationAggregates ==
    (ret.op = "validate_structure"
        /\ \E d \in Descendants(ret.recv) : validate_structure(d) = Outcome("", "False"))
    => ReturnedFlag("False")

(***************************************************************************)
(* Claim about the arrays handed to the caller (under SpecBuffers).        *)
(***************************************************************************)
\* C19: no array a call has returned is written by a later call, no write
\* goes to the stored matrix of a constant gate, and the matrix and the
\* Jacobians that mat_jac returns are pairwise distinct arrays.
C19_ReturnedResultsKept ==
    /\ \A r \in heap.returned : heap.mem[r.buf].writes = r.writes
    /\ \A b \in DOMAIN heap.mem : heap.mem[b].kind = "stored" => heap.mem[b].writes = 0
    /\ ret.op = "mat_jac" =>
           Cardinality({ret.val[k] : k \in DOMAIN ret.val}) = Len(ret.val)

\* C19 witness: the second call is mat_jac of a ProductGate of two children,
\* the first a CNOTGate with its stored matrix and the second with
\* Jacobians, while the caller still holds what the first call returned.
C19_Witness ==
    /\ calls = 2 /\ Called("mat_jac", "ProductGate")
    /\ Len(Children) = 2
    /\ gates[Children[1]].type = "CNOTGate"
    /\ Len(ret.val) > 1
    /\ \E r \in heap.returned : r.buf \notin {ret.val[k] : k \in DOMAIN ret.val}

====
